---- MODULE Spec2Model ----
(***************************************************************************)
(* Model of the AI invocation and response-reconciliation pipeline of the  *)
(* ai-service repository: ValidationService, IaProviderService,            *)
(* PersistenceService and both ProcessingService.processContent bodies     *)
(* found in the source tree.                                               *)
(*                                                                         *)
(* Strings are sequences of one-character strings.  One action is the code *)
(* that runs between two suspension points (await of a network call).      *)
(***************************************************************************)
EXTENDS Integers, Sequences, FiniteSets, TLC

VARIABLES
  executions,   \* PersistenceService.executions : workflowId -> record
  started,      \* number of processContent calls begun (feeds generateId)
  now,          \* wall clock, in days
  pc,           \* per request slot: position in processContent
  req,          \* per slot: the ProcessRequestDto being served
  sanitized,    \* per slot: sanitizedRequest
  ia,           \* per slot: iaResponse.metadata
  calls,        \* per slot: number of processPrompt invocations so far
  book,         \* per slot: generateFullBook loop state
  result,       \* per slot: what the caller of processContent received
  replies,      \* per slot: kinds of the processPrompt outcomes so far
  service,      \* which ProcessingService body is wired into the module
  lastRemoved,  \* value returned by the latest cleanOldRecords call
  tpc,          \* term-check harness: position
  tText,        \* term-check harness: text argument
  tTerms,       \* term-check harness: term list argument
  tOut,         \* term-check harness: returned violations
  uPc,          \* store-update harness: per caller, position
  uArgs,        \* store-update harness: per caller, arguments of its call
  uBase,        \* store-update harness: the store before the first call
  delivery,     \* per slot: mode and callbackUrl of the request
  jobs,         \* QueueService.mockJobs : workflowId -> job status
  cb,           \* per slot: sendCallback POSTs, announced status, return value
  chapterStorage, \* IncrementalGenerationService.chapterStorage, in
                  \* insertion order
  courseStorage,  \* IncrementalGenerationService.courseStorage
  sectionHeap,    \* the section objects chapters refer to
  generatedIds,   \* number of chapter ids generateId has returned
  chapterCalls,   \* number of createChapter and continueChapter calls begun
  ch,             \* per slot: position and locals of the chapter operation
  costCall        \* cost harness: arguments and result of calculateCost

storeVars == <<executions, started, now, service, lastRemoved>>
procVars  == <<pc, req, sanitized, ia, calls, book, result, replies>>
termVars  == <<tpc, tText, tTerms, tOut>>
updVars   == <<uPc, uArgs, uBase>>
chapVars  == <<chapterStorage, courseStorage, sectionHeap, generatedIds,
               chapterCalls, ch>>
\* everything processContent and the store operations leave alone
sideVars  == <<termVars, updVars, cb, chapVars, costCall>>
ctlVars   == <<delivery, jobs>>
restVars  == <<sideVars, ctlVars>>
vars      == <<executions, started, now, service, lastRemoved, pc, req,
               sanitized, ia, calls, book, result, replies, tpc, tText, tTerms,
               tOut, uPc, uArgs, uBase, delivery, jobs, cb, chapterStorage,
               courseStorage, sectionHeap, generatedIds, chapterCalls, ch,
               costCall>>

----------------------------------------------------------------------------
(* Bounds *)

NumProcs       == 2    \* concurrent processContent invocations
MaxRequests    == 2    \* processContent calls per behaviour
MaxDay         == 1    \* clock range
MaxSweepDays   == 1    \* largest olderThanDays passed to cleanOldRecords
MaxOutline     == 2    \* chapters in a book outline returned by the AI
MaxTextLen     == 3    \* term-check harness: text length
MaxTermLen     == 2    \* term-check harness: term length
MaxTerms       == 2    \* term-check harness: term list length
MaxNewSections == 2    \* section objects in one AI chapter response
MaxChapterCalls == 2   \* createChapter and continueChapter calls per behaviour
MaxChapterNumber == 2  \* largest chapterNumber a caller supplies
MaxTokens      == 4    \* cost harness: largest token count of a completion

Procs       == 1..NumProcs
WorkflowIds == {"w1", "w2"}
Undefined   == "undefined"       \* an absent identifier or message
NoStr       == <<"undefined">>    \* an absent string-valued field

----------------------------------------------------------------------------
(* Strings *)

TermAlphabet == {"a", "A", "b"}

\* String.prototype.toLowerCase on one character
LowerChar(c) ==
  CASE c = "A" -> "a"
    [] c = "B" -> "b"
    [] c = "R" -> "r"
    [] OTHER   -> c

\* a comparison that forgets to fold case
toLowerCaseIdentity(s) == s

toLowerCase(s) == [i \in 1..Len(s) |-> LowerChar(s[i])]

\* String.prototype.includes
includes(text, term) ==
  \E i \in 0..(Len(text) - Len(term)) : SubSeq(text, i + 1, i + Len(term)) = term

\* Array.prototype.join(' ')
RECURSIVE join(_)
join(parts) ==
  IF parts = <<>> THEN <<>>
  ELSE IF Len(parts) = 1 THEN parts[1]
  ELSE parts[1] \o <<" ">> \o join(Tail(parts))

\* String.prototype.trim
RECURSIVE trimStart(_)
trimStart(s) == IF s # <<>> /\ Head(s) = " " THEN trimStart(Tail(s)) ELSE s

RECURSIVE trimEnd(_)
trimEnd(s) ==
  IF s # <<>> /\ s[Len(s)] = " " THEN trimEnd(SubSeq(s, 1, Len(s) - 1)) ELSE s

trim(s) == trimEnd(trimStart(s))

\* .replace(/<[^>]*>/g, '')
RECURSIVE stripTags(_)
stripTags(s) ==
  IF s = <<>> THEN <<>>
  ELSE IF Head(s) = "<" /\ \E j \in 2..Len(s) : s[j] = ">"
       THEN LET j == CHOOSE k \in 2..Len(s) :
                       s[k] = ">" /\ \A m \in 2..(k - 1) : s[m] # ">"
            IN  stripTags(SubSeq(s, j + 1, Len(s)))
       ELSE <<Head(s)>> \o stripTags(Tail(s))

\* ValidationService.sanitizeText.  Request texts are drawn from the
\* characters a, A, b, B, space, < and >, on which the script-block,
\* "javascript:" and "on...=" replacements find nothing to replace.
sanitizeText(text) == trim(stripTags(text))

----------------------------------------------------------------------------
(* ValidationService term checks *)

ForbiddenViolation(term) ==
  [rule |-> "forbidden_term", term |-> term, severity |-> "high"]

RequiredViolation(term) ==
  [rule |-> "missing_required_term", term |-> term, severity |-> "medium"]

RECURSIVE forbiddenLoop(_, _)
forbiddenLoop(lowerText, terms) ==
  IF terms = <<>> THEN <<>>
  ELSE (IF includes(lowerText, toLowerCase(Head(terms)))
        THEN <<ForbiddenViolation(Head(terms))>> ELSE <<>>)
       \o forbiddenLoop(lowerText, Tail(terms))

checkForbiddenTerms(text, forbiddenTerms) ==
  forbiddenLoop(toLowerCase(text), forbiddenTerms)

RECURSIVE requiredLoop(_, _)
requiredLoop(lowerText, terms) ==
  IF terms = <<>> THEN <<>>
  ELSE (IF ~includes(lowerText, toLowerCase(Head(terms)))
        THEN <<RequiredViolation(Head(terms))>> ELSE <<>>)
       \o requiredLoop(lowerText, Tail(terms))

checkRequiredTerms(text, requiredTerms) ==
  requiredLoop(toLowerCase(text), requiredTerms)

----------------------------------------------------------------------------
(* Term-check harness: the two checks applied to every bounded input *)

SeqsUpTo(S, n) == UNION {[1..k -> S] : k \in 0..n}

HarnessTexts     == SeqsUpTo(TermAlphabet, MaxTextLen)
HarnessTerms     == SeqsUpTo(TermAlphabet, MaxTermLen)
HarnessTermLists == SeqsUpTo(HarnessTerms, MaxTerms)

TermsIdle ==
  /\ tpc = "off" /\ tText = <<>> /\ tTerms = <<>> /\ tOut = <<>>

CallCheckRequired ==
  /\ tpc = "ready"
  /\ tOut' = checkRequiredTerms(tText, tTerms)
  /\ tpc' = "required"
  /\ UNCHANGED <<tText, tTerms>>
  /\ UNCHANGED <<storeVars, procVars, updVars, ctlVars, cb, chapVars,
                 costCall>>

CallCheckForbidden ==
  /\ tpc = "ready"
  /\ tOut' = checkForbiddenTerms(tText, tTerms)
  /\ tpc' = "forbidden"
  /\ UNCHANGED <<tText, tTerms>>
  /\ UNCHANGED <<storeVars, procVars, updVars, ctlVars, cb, chapVars,
                 costCall>>

----------------------------------------------------------------------------
(* Requests *)

NoPolicy    == [present |-> FALSE]
EmptyPolicy == [present |-> TRUE, requiredTerms |-> <<>>, forbiddenTerms |-> <<>>]
TermPolicy  == [present |-> TRUE, requiredTerms |-> << <<"a">> >>,
                forbiddenTerms |-> << <<"B">> >>]

TextPlain  == <<"a", "B">>
TextTagged == <<"<", "b", ">", "a">>
TextBlank  == <<" ">>
Title      == <<"b">>

\* ProcessRequestDto, reduced to the fields processContent reads:
\*   title        metadata.title (with discipline, courseId, language), or
\*                NoStr when metadata lacks a required field
\*   intelligent  component, template and philosophy are all present
\*   bookTag      metadata.tags includes 'book'
\*   maxChapters  options.maxChapters, 0 when absent
Request(w, text, title, policy, intelligent, bookTag, maxChapters) ==
  [workflowId |-> w, text |-> text, title |-> title, policy |-> policy,
   intelligent |-> intelligent, bookTag |-> bookTag,
   maxChapters |-> maxChapters]

LegacyRequests ==
  {Request("w1", TextTagged, Title, pol, FALSE, FALSE, 0) :
     pol \in {EmptyPolicy, TermPolicy}}
  \cup {Request("w2", TextTagged, Title, TermPolicy, FALSE, FALSE, 0)}

InvalidRequests ==
  {Request("w1", TextBlank, Title, NoPolicy, FALSE, FALSE, 0),
   Request("w1", TextPlain, NoStr, NoPolicy, FALSE, FALSE, 0)}

IntelligentRequests ==
  {Request("w1", TextPlain, Title, TermPolicy, TRUE, FALSE, 0)}

BookRequests ==
  {Request("w1", TextPlain, Title, NoPolicy, FALSE, TRUE, m) : m \in {0, 1}}

Requests ==
  LegacyRequests \cup InvalidRequests \cup IntelligentRequests \cup BookRequests

\* the requests of the retention-sweep specification
SweepRequests ==
  {Request(w, TextPlain, Title, NoPolicy, FALSE, FALSE, 0) : w \in WorkflowIds}

\* the legacy requests handed both to the worker and to processContent,
\* under workflow id w
PipelineRequests(w) ==
  {Request(w, TextPlain, Title, policy, FALSE, FALSE, 0) :
     policy \in {NoPolicy, TermPolicy}}

\* the requests of the mode-selection specification: every combination of
\* the intelligent fields and the book tag
ModeRequests ==
  {Request("w1", TextPlain, Title, NoPolicy, intelligent, bookTag, 1) :
     intelligent \in BOOLEAN, bookTag \in BOOLEAN}

NoRequest == Request(Undefined, <<>>, NoStr, NoPolicy, FALSE, FALSE, 0)

\* ValidationService.validateProcessRequest: TRUE when nothing is thrown
validateProcessRequest(request) ==
  /\ request.workflowId # Undefined
  /\ Len(trim(request.text)) # 0
  /\ request.title # NoStr

----------------------------------------------------------------------------
(* JSON values the AI can return, reduced to what processContent reads *)

\* improvedText is an array of section contents, absent, or some other value
Array(items) == [kind |-> "array", items |-> items]
NoArray      == [kind |-> "undefined"]
NotArray     == [kind |-> "other"]

\* type: "null" or "object"; chapters: the object has a chapters array;
\* rawId: meta.rawId; book: a book property has been attached
Json(type, summary, improvedText, rawId, chapters) ==
  [kind |-> "json", type |-> type, summary |-> summary,
   improvedText |-> improvedText, rawId |-> rawId, chapters |-> chapters,
   violations |-> <<>>, book |-> FALSE]

JNull     == Json("null", NoStr, NoArray, Undefined, FALSE)     \* null
JEmptyObj == Json("object", NoStr, NoArray, Undefined, FALSE)   \* {}
JBadText  == Json("object", <<"A">>, NotArray, "raw", FALSE) \* improvedText: "x"
JGoodAB   == Json("object", <<"A">>, Array(<< <<"b">> >>), "raw", FALSE)
JWorkflow == Json("object", NoStr, NoArray, Undefined, TRUE)

AiJson == {JNull, JEmptyObj, JBadText, JGoodAB, JWorkflow}

\* What one processPrompt round trip can produce: a provider failure or an
\* empty completion (both thrown as ServiceUnavailableException), text that
\* is not JSON, or JSON.
Failure    == [kind |-> "failure"]
Garbage    == [kind |-> "text"]
AiOutcomes == {Failure, Garbage} \cup AiJson

\* try { JSON.parse(content) } succeeded
parses(content) == content.kind = "json"

\* ExecutionMetadataDto, in token units: one unit in and one out per
\* processPrompt round trip.
Metadata(tokensIn, tokensOut) ==
  [present |-> TRUE, tokensIn |-> tokensIn, tokensOut |-> tokensOut]
UsageMetadata == Metadata(1, 1)
ZeroMetadata  == Metadata(0, 0)
NoMetadata    == [present |-> FALSE]

----------------------------------------------------------------------------
(* PersistenceService *)

NoRecord == [status |-> "none"]
NoOutput == [status |-> "none"]

Terminal == {"completed", "error"}
Active   == {"pending", "processing"}

\* ProcessResponseDto
Response(w, payload, execution) ==
  [workflowId |-> w, status |-> "completed", payload |-> payload,
   execution |-> execution]

\* saveInitialExecution: executions.set(workflowId, record), unconditionally.
\* Of the three timestamps only createdAt is read by a modelled operation
\* (cleanOldRecords); updatedAt and completedAt are left out.
saveInitialExecution(store, workflowId, request, status, id, t) ==
  [store EXCEPT ![workflowId] =
     [id |-> id, workflowId |-> workflowId, status |-> status,
      input |-> request, output |-> NoOutput, execution |-> NoMetadata,
      error |-> Undefined, createdAt |-> t]]

\* updateExecutionStatus: no effect when the id has no record; otherwise the
\* status is overwritten and output, execution, error are set when given
updateExecutionStatus(store, workflowId, status, output, execution, error, t) ==
  IF store[workflowId] = NoRecord THEN store
  ELSE [store EXCEPT ![workflowId] =
          [@ EXCEPT !.status = status,
                    !.output = IF output # NoOutput THEN output ELSE @,
                    !.execution = IF execution # NoMetadata THEN execution ELSE @,
                    !.error = IF error # Undefined THEN error ELSE @]]

\* the records cleanOldRecords deletes: record.createdAt < cutoffDate
Expired(store, olderThanDays, t) ==
  {w \in WorkflowIds :
     store[w] # NoRecord /\ store[w].createdAt < t - olderThanDays}

CleanOldRecords ==
  \E days \in 0..MaxSweepDays :
    /\ Expired(executions, days, now) # {}
    /\ executions' = [w \in WorkflowIds |->
                        IF w \in Expired(executions, days, now)
                        THEN NoRecord ELSE executions[w]]
    /\ lastRemoved' = Cardinality(Expired(executions, days, now))
    /\ UNCHANGED <<started, now, service, procVars, restVars>>

Tick ==
  /\ now < MaxDay
  /\ now' = now + 1
  /\ UNCHANGED <<executions, started, service, lastRemoved, procVars, restVars>>

----------------------------------------------------------------------------
(* Concurrent updateExecutionStatus calls *)

\* the arguments of one updateExecutionStatus call
UpdateCall(w, status, output, execution, error) ==
  [workflowId |-> w, status |-> status, output |-> output,
   execution |-> execution, error |-> error]

NoUpdate == UpdateCall("none", "none", NoOutput, NoMetadata, Undefined)

\* calls of the shapes the repository makes (completed with response and
\* metadata, error with a message), a bare status change and a call that
\* supplies an output only
UpdateCalls ==
  UNION {{UpdateCall(w, "processing", NoOutput, NoMetadata, Undefined),
          UpdateCall(w, "completed", Response(w, JGoodAB, UsageMetadata),
                     UsageMetadata, Undefined),
          UpdateCall(w, "completed", Response(w, JEmptyObj, ZeroMetadata),
                     NoMetadata, Undefined),
          UpdateCall(w, "error", NoOutput, NoMetadata, "fault")} :
           w \in WorkflowIds}

applyUpdate(store, call) ==
  updateExecutionStatus(store, call.workflowId, call.status, call.output,
                        call.execution, call.error, 0)

\* a caller reads its record from a copy of the store taken before any call
\* ran and writes the updated record back
UpdateInvokeStale(p) ==
  /\ uPc[p] = "ready"
  /\ \E call \in UpdateCalls :
       /\ uArgs' = [uArgs EXCEPT ![p] = call]
       /\ executions' = [executions EXCEPT ![call.workflowId] =
                           applyUpdate(uBase, call)[call.workflowId]]
  /\ uPc' = [uPc EXCEPT ![p] = "awaiting"]
  /\ UNCHANGED <<started, now, service, lastRemoved, uBase, procVars,
                 termVars, ctlVars, cb, chapVars,
                 costCall>>

\* updateExecutionStatus is called: its body has no await, so the lookup,
\* the field assignments and executions.set run as one step, up to the
\* return of the promise
UpdateInvoke(p) ==
  /\ uPc[p] = "ready"
  /\ \E call \in UpdateCalls :
       /\ uArgs' = [uArgs EXCEPT ![p] = call]
       /\ executions' = applyUpdate(executions, call)
  /\ uPc' = [uPc EXCEPT ![p] = "awaiting"]
  /\ UNCHANGED <<started, now, service, lastRemoved, uBase, procVars,
                 termVars, ctlVars, cb, chapVars,
                 costCall>>

\* the caller's await of the returned promise resumes
UpdateResume(p) ==
  /\ uPc[p] = "awaiting"
  /\ uPc' = [uPc EXCEPT ![p] = "done"]
  /\ UNCHANGED <<storeVars, uArgs, uBase, procVars, termVars, ctlVars,
                 cb, chapVars,
                 costCall>>

----------------------------------------------------------------------------
(* Policy enforcement and fallback payload *)

UndefinedText == <<"u", "n", "d", "e", "f", "i", "n", "e", "d">>

\* payload.summary + ' ' + improvedText.map(t => t.content).join(' ');
\* ok is FALSE when the expression throws a TypeError
policyText(svc, payload) ==
  LET summary == IF payload.summary = NoStr THEN UndefinedText
                 ELSE payload.summary
  IN  IF payload.type = "null" THEN [ok |-> FALSE, text |-> <<>>]
      ELSE IF payload.improvedText.kind = "array"
        THEN [ok |-> TRUE,
              text |-> summary \o <<" ">> \o join(payload.improvedText.items)]
      ELSE IF payload.improvedText.kind = "undefined" /\ svc = "incremental"
        THEN [ok |-> TRUE, text |-> summary \o <<" ">>]
      ELSE [ok |-> FALSE, text |-> <<>>]

applyPolicyValidations(svc, payload, policy) ==
  IF ~policy.present THEN [ok |-> TRUE, violations |-> <<>>]
  ELSE LET needRequired  == Len(policy.requiredTerms) > 0
           needForbidden == Len(policy.forbiddenTerms) > 0
           content       == policyText(svc, payload)
       IN  IF ~(needRequired \/ needForbidden)
             THEN [ok |-> TRUE, violations |-> <<>>]
           ELSE IF ~content.ok
             THEN [ok |-> FALSE, violations |-> <<>>]
           ELSE [ok |-> TRUE,
                 violations |->
                   (IF needRequired
                    THEN checkRequiredTerms(content.text, policy.requiredTerms)
                    ELSE <<>>)
                   \o
                   (IF needForbidden
                    THEN checkForbiddenTerms(content.text, policy.forbiddenTerms)
                    ELSE <<>>)]

FallbackChars == 500

\* "Resumo básico do conteúdo: "
FallbackSummaryPrefix ==
  <<"R", "e", "s", "u", "m", "o", " ", "b", "á", "s", "i", "c", "o", " ",
    "d", "o", " ", "c", "o", "n", "t", "e", "ú", "d", "o", ":", " ">>

Ellipsis == <<".", ".", ".">>

\* String.prototype.substring(0, n)
substring0(s, n) == SubSeq(s, 1, IF Len(s) < n THEN Len(s) ELSE n)

createFallbackPayload(request) ==
  Json("object", FallbackSummaryPrefix \o request.title,
       Array(<<substring0(request.text, FallbackChars) \o Ellipsis>>),
       "fallback", TRUE)

----------------------------------------------------------------------------
(* ProcessingService.processContent *)

Services == {"processing", "incremental"}

NoBook   == [chapters |-> 0, generated |-> 0, tokensIn |-> 0, tokensOut |-> 0]
NoResult == [outcome |-> "none", response |-> NoOutput]

\* catch (error) { updateExecutionStatus(workflowId, 'error', ..., message);
\*                 throw new ServiceUnavailableException(...) }
Fault(p, w, message) ==
  /\ executions' = updateExecutionStatus(executions, w, "error", NoOutput,
                                          NoMetadata, message, now)
  /\ pc' = [pc EXCEPT ![p] = "done"]
  /\ result' = [result EXCEPT ![p] =
                  [outcome |-> "ServiceUnavailable", response |-> NoOutput]]
  /\ UNCHANGED calls

\* one more processPrompt round trip is started
IssueCall(p, nextPc) ==
  /\ calls' = [calls EXCEPT ![p] = @ + 1]
  /\ pc' = [pc EXCEPT ![p] = nextPc]
  /\ UNCHANGED <<executions, result>>

\* book attachment, policy validation, final response and
\* updateExecutionStatus(workflowId, 'completed', response, metadata)
Complete(p, payload, metadata) ==
  LET request  == sanitized[p]
      w        == request.workflowId
      withBook == IF service = "incremental" /\ request.bookTag
                  THEN [payload EXCEPT !.book = TRUE] ELSE payload
      checked  == applyPolicyValidations(service, withBook, request.policy)
      final    == [withBook EXCEPT !.violations = checked.violations]
      response == Response(w, final, metadata)
  IN  IF ~checked.ok \/ payload.type = "null"
        THEN Fault(p, w, "TypeError")
        ELSE /\ executions' = updateExecutionStatus(executions, w, "completed",
                                  response, metadata, Undefined, now)
             /\ pc' = [pc EXCEPT ![p] = "metrics"]
             /\ result' = [result EXCEPT ![p] =
                             [outcome |-> "none", response |-> response]]
             /\ UNCHANGED calls

\* steps 1-4 and the first processPrompt call, or the catch block when
\* validation throws
ProcessContent(p, requests) ==
  /\ pc[p] = "idle"
  /\ started < MaxRequests
  /\ \E request \in requests :
       LET w     == request.workflowId
           clean == [request EXCEPT !.text = sanitizeText(request.text)]
       IN  /\ started' = started + 1
           /\ req' = [req EXCEPT ![p] = request]
           /\ IF ~validateProcessRequest(request)
                THEN /\ Fault(p, w, "BadRequest")
                     /\ UNCHANGED sanitized
                ELSE /\ executions' = saveInitialExecution(executions, w, clean,
                                          "processing", started + 1, now)
                     /\ sanitized' = [sanitized EXCEPT ![p] = clean]
                     /\ calls' = [calls EXCEPT ![p] = 1]
                     /\ pc' = [pc EXCEPT ![p] =
                          IF service = "processing" THEN "awaitAI"
                          ELSE IF request.intelligent THEN "awaitIntelligent"
                          ELSE IF request.bookTag THEN "awaitOutline"
                          ELSE "awaitAI"]
                     /\ UNCHANGED result
  /\ UNCHANGED <<now, service, lastRemoved, ia, book, replies, sideVars>>

ProcessContentStart(p) ==
  ProcessContent(p, Requests) /\ UNCHANGED ctlVars

ModesStart(p) ==
  ProcessContent(p, ModeRequests) /\ UNCHANGED ctlVars

\* the first processPrompt call of the legacy flow resolves, then
\* validateAndCorrectResponse parses it or starts the correction call
LegacyResponse(p) ==
  /\ pc[p] = "awaitAI"
  /\ \E out \in AiOutcomes :
       /\ replies' = [replies EXCEPT ![p] = Append(@, out.kind)]
       /\ IF out = Failure
            THEN /\ Fault(p, req[p].workflowId, "ServiceUnavailable")
                 /\ UNCHANGED ia
          ELSE /\ ia' = [ia EXCEPT ![p] = UsageMetadata]
               /\ IF parses(out)
                    THEN Complete(p, out, IF service = "processing"
                                          THEN ZeroMetadata ELSE UsageMetadata)
                    ELSE IssueCall(p, "awaitCorrection")
  /\ UNCHANGED <<started, now, service, lastRemoved, req, sanitized, book,
                 restVars>>

\* a reconciler that keeps asking for a correction until the answer parses
CorrectionResponseRetrying(p) ==
  /\ pc[p] = "awaitCorrection"
  /\ \E out \in AiOutcomes :
       /\ replies' = [replies EXCEPT ![p] = Append(@, out.kind)]
       /\ IF out # Failure /\ parses(out)
            THEN Complete(p, out, IF service = "processing"
                                  THEN UsageMetadata ELSE ia[p])
            ELSE IssueCall(p, "awaitCorrection")
  /\ UNCHANGED <<started, now, service, lastRemoved, req, sanitized, ia, book,
                 restVars>>

\* the correction call resolves.  processing.service.ts calls
\* validateAndCorrectResponse outside the parse try block, the other body
\* inside it.
CorrectionResponse(p) ==
  /\ pc[p] = "awaitCorrection"
  /\ \E out \in AiOutcomes :
       /\ replies' = [replies EXCEPT ![p] = Append(@, out.kind)]
       /\ IF out # Failure /\ parses(out)
            THEN Complete(p, out, IF service = "processing"
                                  THEN UsageMetadata ELSE ia[p])
          ELSE IF service = "processing"
            THEN Fault(p, req[p].workflowId, "ServiceUnavailable")
          ELSE Complete(p, createFallbackPayload(sanitized[p]), ia[p])
  /\ UNCHANGED <<started, now, service, lastRemoved, req, sanitized, ia, book,
                 restVars>>

\* generateIntelligentWorkflowFallback: { content, model, tokensIn, ... },
\* an object without a metadata property
LocalWorkflowJson == Json("object", NoStr, NoArray, Undefined, TRUE)

\* processIntelligentWorkflow resolves; no correction call in this mode
IntelligentResponse(p) ==
  /\ pc[p] = "awaitIntelligent"
  /\ \E out \in AiOutcomes :
       /\ replies' = [replies EXCEPT ![p] = Append(@, out.kind)]
       /\ LET response == IF out = Failure
                          THEN [content |-> LocalWorkflowJson,
                                metadata |-> NoMetadata]
                          ELSE [content |-> out, metadata |-> UsageMetadata]
          IN  /\ ia' = [ia EXCEPT ![p] = response.metadata]
              /\ IF parses(response.content)
                   THEN Complete(p, response.content, response.metadata)
                   ELSE Complete(p, createFallbackPayload(sanitized[p]),
                                 response.metadata)
  /\ UNCHANGED <<started, now, service, lastRemoved, req, sanitized, book,
                 restVars>>

\* step 11: metrics read iaResponse.metadata.model, then return response
RecordMetrics(p) ==
  /\ pc[p] = "metrics"
  /\ IF result[p].response.execution = NoMetadata
       THEN Fault(p, req[p].workflowId, "TypeError")
       ELSE /\ pc' = [pc EXCEPT ![p] = "done"]
            /\ result' = [result EXCEPT ![p].outcome = "completed"]
            /\ UNCHANGED <<executions, calls>>
  /\ UNCHANGED <<started, now, service, lastRemoved, req, sanitized, ia, book,
                 replies, restVars>>

\* the caller has received the response or the exception
Return(p) ==
  /\ pc[p] = "done"
  /\ pc' = [pc EXCEPT ![p] = "idle"]
  /\ req' = [req EXCEPT ![p] = NoRequest]
  /\ sanitized' = [sanitized EXCEPT ![p] = NoRequest]
  /\ ia' = [ia EXCEPT ![p] = NoMetadata]
  /\ calls' = [calls EXCEPT ![p] = 0]
  /\ book' = [book EXCEPT ![p] = NoBook]
  /\ result' = [result EXCEPT ![p] = NoResult]
  /\ replies' = [replies EXCEPT ![p] = <<>>]
  /\ UNCHANGED <<storeVars, restVars>>

----------------------------------------------------------------------------
(* IaProviderService.generateFullBook, called by the book flow *)

Outline(n)      == [kind |-> "json", chapters |-> n]
OutlineOutcomes == {Failure, Garbage} \cup {Outline(n) : n \in 0..MaxOutline}

ChapterJson     == [kind |-> "json", type |-> "object"]
ChapterOutcomes == {Failure, Garbage, ChapterJson}

\* the aggregated { book, outline, chapters } object, stringified
BookJson == Json("object", NoStr, NoArray, Undefined, TRUE)

\* estimateTokens of a non-empty text, in token units
EstimatedTokens == 1

Min(a, b) == IF a < b THEN a ELSE b

\* number of loop iterations: i < limit and chapters[i] defined
chapterLimit(n, maxChapters) ==
  IF maxChapters > 0 THEN Min(Min(maxChapters, IF n = 0 THEN maxChapters ELSE n), n)
  ELSE n

\* x || estimateTokens(text)
orEstimate(x) == IF x = 0 THEN EstimatedTokens ELSE x

\* generateFullBook returns the aggregate; processContent then parses it
\* (it always parses) and completes
BookDone(p, generated, tokensIn, tokensOut) ==
  LET metadata == Metadata(tokensIn, orEstimate(tokensOut))
  IN  /\ ia' = [ia EXCEPT ![p] = metadata]
      /\ book' = [book EXCEPT ![p].generated = generated,
                               ![p].tokensIn = tokensIn,
                               ![p].tokensOut = tokensOut]
      /\ Complete(p, BookJson, metadata)

\* the outline is in hand: totals are initialised and the chapter loop starts
AfterOutline(p, n, outlineMetadata) ==
  LET tokensIn  == EstimatedTokens + outlineMetadata.tokensIn
      tokensOut == orEstimate(outlineMetadata.tokensOut)
  IN  IF chapterLimit(n, sanitized[p].maxChapters) = 0
        THEN BookDone(p, 0, tokensIn, tokensOut)
        ELSE /\ book' = [book EXCEPT ![p] =
                          [chapters |-> n, generated |-> 0,
                           tokensIn |-> tokensIn, tokensOut |-> tokensOut]]
             /\ IssueCall(p, "awaitChapter")
             /\ UNCHANGED ia

\* one chapter is in hand: totals are accumulated, the loop goes on or ends
ChapterDone(p, chapterMetadata) ==
  LET tokensIn  == book[p].tokensIn + chapterMetadata.tokensIn
      tokensOut == book[p].tokensOut + orEstimate(chapterMetadata.tokensOut)
  IN  IF book[p].generated + 1 < chapterLimit(book[p].chapters,
                                              sanitized[p].maxChapters)
        THEN /\ book' = [book EXCEPT ![p].generated = @ + 1,
                                      ![p].tokensIn = tokensIn,
                                      ![p].tokensOut = tokensOut]
             /\ IssueCall(p, "awaitChapter")
             /\ UNCHANGED ia
        ELSE BookDone(p, book[p].generated + 1, tokensIn, tokensOut)

OutlineResponse(p) ==
  /\ pc[p] = "awaitOutline"
  /\ \E out \in OutlineOutcomes :
       /\ replies' = [replies EXCEPT ![p] = Append(@, out.kind)]
       /\ IF out = Failure
            THEN Fault(p, req[p].workflowId, "ServiceUnavailable")
                 /\ UNCHANGED <<ia, book>>
          ELSE IF parses(out) THEN AfterOutline(p, out.chapters, ZeroMetadata)
          ELSE IssueCall(p, "awaitOutlineCorrection") /\ UNCHANGED <<ia, book>>
  /\ UNCHANGED <<started, now, service, lastRemoved, req, sanitized, restVars>>

OutlineCorrectionResponse(p) ==
  /\ pc[p] = "awaitOutlineCorrection"
  /\ \E out \in OutlineOutcomes :
       /\ replies' = [replies EXCEPT ![p] = Append(@, out.kind)]
       /\ IF out # Failure /\ parses(out)
            THEN AfterOutline(p, out.chapters, UsageMetadata)
            ELSE Fault(p, req[p].workflowId, "ServiceUnavailable")
                 /\ UNCHANGED <<ia, book>>
  /\ UNCHANGED <<started, now, service, lastRemoved, req, sanitized, restVars>>

ChapterResponse(p) ==
  /\ pc[p] = "awaitChapter"
  /\ \E out \in ChapterOutcomes :
       /\ replies' = [replies EXCEPT ![p] = Append(@, out.kind)]
       /\ IF out = Failure
            THEN Fault(p, req[p].workflowId, "ServiceUnavailable")
                 /\ UNCHANGED <<ia, book>>
          ELSE IF parses(out) THEN ChapterDone(p, ZeroMetadata)
          ELSE IssueCall(p, "awaitChapterCorrection") /\ UNCHANGED <<ia, book>>
  /\ UNCHANGED <<started, now, service, lastRemoved, req, sanitized, restVars>>

ChapterCorrectionResponse(p) ==
  /\ pc[p] = "awaitChapterCorrection"
  /\ \E out \in ChapterOutcomes :
       /\ replies' = [replies EXCEPT ![p] = Append(@, out.kind)]
       /\ IF out # Failure /\ parses(out)
            THEN ChapterDone(p, UsageMetadata)
            ELSE Fault(p, req[p].workflowId, "ServiceUnavailable")
                 /\ UNCHANGED <<ia, book>>
  /\ UNCHANGED <<started, now, service, lastRemoved, req, sanitized, restVars>>

----------------------------------------------------------------------------
(* Specifications *)

ProcsIdle ==
  /\ pc = [p \in Procs |-> "idle"]
  /\ req = [p \in Procs |-> NoRequest]
  /\ sanitized = [p \in Procs |-> NoRequest]
  /\ ia = [p \in Procs |-> NoMetadata]
  /\ calls = [p \in Procs |-> 0]
  /\ book = [p \in Procs |-> NoBook]
  /\ result = [p \in Procs |-> NoResult]
  /\ replies = [p \in Procs |-> <<>>]

StoreEmpty ==
  /\ executions = [w \in WorkflowIds |-> NoRecord]
  /\ started = 0
  /\ now = 0
  /\ lastRemoved = 0

----------------------------------------------------------------------------
(* ProcessingController.processContent and the queue *)

\* a callbackUrl value: isUrl is the verdict of the @IsUrl() decorator,
\* parses is whether new URL(callbackUrl) returns
Url(isUrl, parsesUrl, scheme, host) ==
  [present |-> TRUE, isUrl |-> isUrl, parses |-> parsesUrl,
   scheme |-> scheme, host |-> host]

NoUrl    == [present |-> FALSE, isUrl |-> FALSE, parses |-> FALSE,
             scheme |-> "none", host |-> FALSE]
UrlHttps == Url(TRUE, TRUE, "https", TRUE)      \* https://host.com/cb
UrlFtp   == Url(TRUE, TRUE, "ftp", TRUE)        \* ftp://host.com/cb
UrlBare  == Url(TRUE, FALSE, "none", FALSE)     \* host.com/cb
UrlText  == Url(FALSE, FALSE, "none", FALSE)    \* not a url

CallbackUrls == {NoUrl, UrlHttps, UrlFtp, UrlBare, UrlText}
Modes        == {"sync", "async"}

Delivery(mode, callbackUrl) == [mode |-> mode, callbackUrl |-> callbackUrl]
NoDelivery == Delivery("none", NoUrl)

\* the global ValidationPipe on ProcessRequestDto: @IsOptional() @IsUrl()
pipeAccepts(d) == d.callbackUrl.present => d.callbackUrl.isUrl

\* the mode and callbackUrl checks of validateProcessRequest
validateCallback(d) ==
  /\ ~(d.mode = "async" /\ ~d.callbackUrl.present)
  /\ d.callbackUrl.present => d.callbackUrl.parses

\* CallbackService.validateCallbackUrl
validateCallbackUrl(url) ==
  url.present /\ url.parses /\ url.scheme \in {"http", "https"} /\ url.host

ControllerRequests ==
  {Request(w, TextPlain, Title, NoPolicy, FALSE, FALSE, 0) : w \in WorkflowIds}

NoJobs == [w \in WorkflowIds |-> "none"]

\* QueueService.addProcessingJob: mockJobs.set(workflowId, {status: waiting})
addProcessingJob(queue, w) == [queue EXCEPT ![w] = "waiting"]

NoCallback == [posts |-> 0, status |-> "none", returned |-> "none"]

ControllerIdle ==
  /\ delivery = [p \in Procs |-> NoDelivery]
  /\ jobs = NoJobs
  /\ cb = [p \in Procs |-> NoCallback]

\* POST /process-content: the validation pipe, then the sync branch up to
\* the first processPrompt call of processContent, or the async branch up to
\* the accepted answer
PostProcessContent(p) ==
  /\ pc[p] = "idle"
  /\ \E request \in ControllerRequests, mode \in Modes, url \in CallbackUrls :
       LET d == Delivery(mode, url)
           w == request.workflowId
       IN  /\ delivery' = [delivery EXCEPT ![p] = d]
           /\ IF ~pipeAccepts(d)
                THEN /\ started < MaxRequests
                     /\ started' = started + 1
                     /\ req' = [req EXCEPT ![p] = request]
                     /\ pc' = [pc EXCEPT ![p] = "done"]
                     /\ result' = [result EXCEPT ![p] =
                           [outcome |-> "BadRequest", response |-> NoOutput]]
                     /\ UNCHANGED <<executions, now, service, lastRemoved,
                                    sanitized, ia, calls, book, replies, jobs,
                                    sideVars>>
                ELSE IF mode = "sync"
                THEN IF validateCallback(d)
                       THEN ProcessContent(p, {request}) /\ UNCHANGED jobs
                       ELSE /\ started < MaxRequests
                            /\ started' = started + 1
                            /\ req' = [req EXCEPT ![p] = request]
                            /\ Fault(p, w, "BadRequest")
                            /\ UNCHANGED <<now, service, lastRemoved,
                                           sanitized, ia, book, replies, jobs,
                                           sideVars>>
                ELSE /\ started < MaxRequests
                     /\ started' = started + 1
                     /\ req' = [req EXCEPT ![p] = request]
                     /\ jobs' = addProcessingJob(jobs, w)
                     /\ pc' = [pc EXCEPT ![p] = "done"]
                     /\ result' = [result EXCEPT ![p] =
                           [outcome |-> "accepted", response |-> NoOutput]]
                     /\ UNCHANGED <<executions, now, service, lastRemoved,
                                    sanitized, ia, calls, book, replies,
                                    sideVars>>

\* the caller has received the answer of POST /process-content
ControllerReturn(p) ==
  /\ pc[p] = "done"
  /\ pc' = [pc EXCEPT ![p] = "idle"]
  /\ req' = [req EXCEPT ![p] = NoRequest]
  /\ sanitized' = [sanitized EXCEPT ![p] = NoRequest]
  /\ ia' = [ia EXCEPT ![p] = NoMetadata]
  /\ calls' = [calls EXCEPT ![p] = 0]
  /\ book' = [book EXCEPT ![p] = NoBook]
  /\ result' = [result EXCEPT ![p] = NoResult]
  /\ replies' = [replies EXCEPT ![p] = <<>>]
  /\ delivery' = [delivery EXCEPT ![p] = NoDelivery]
  /\ UNCHANGED <<storeVars, jobs, sideVars>>

----------------------------------------------------------------------------
(* QueueProcessor.process and CallbackService.sendCallback *)

WorkerRequests ==
  {Request("w1", text, Title, policy, FALSE, FALSE, 0) :
     text \in {TextPlain, TextBlank}, policy \in {NoPolicy, TermPolicy}}

WorkerCallbackUrls == {NoUrl, UrlHttps}

\* what axios.post can do: resolve with a 2xx status, resolve with another
\* status, or reject (network error, timeout, status rejected by axios)
PostOutcomes == {"2xx", "other", "rejected"}

\* sendCallback is entered: axios.post is issued, if callbackUrl is set
dispatch(p, status, outcome) ==
  IF delivery[p].callbackUrl.present
    THEN /\ cb' = [cb EXCEPT ![p] = [posts |-> @.posts + 1, status |-> status,
                                     returned |-> "none"]]
         /\ pc' = [pc EXCEPT ![p] = "awaitCallback"]
         /\ result' = [result EXCEPT ![p].outcome = outcome]
    ELSE /\ pc' = [pc EXCEPT ![p] = "done"]
         /\ result' = [result EXCEPT ![p].outcome = outcome]
         /\ UNCHANGED cb

\* the catch block: updateExecutionStatus(error), error callback, rethrow
WorkerFault(p, w, message) ==
  /\ executions' = updateExecutionStatus(executions, w, "error", NoOutput,
                                          NoMetadata, message, now)
  /\ dispatch(p, "error", "failed")
  /\ UNCHANGED calls

\* steps 8-10 and the completed callback
WorkerComplete(p, payload, metadata) ==
  LET request  == sanitized[p]
      w        == request.workflowId
      checked  == applyPolicyValidations("processing", payload, request.policy)
      final    == [payload EXCEPT !.violations = checked.violations]
      response == Response(w, final, metadata)
  IN  IF ~checked.ok \/ payload.type = "null"
        THEN WorkerFault(p, w, "TypeError")
        ELSE /\ executions' = updateExecutionStatus(executions, w, "completed",
                                  response, metadata, Undefined, now)
             /\ cb' = [cb EXCEPT ![p] =
                         IF delivery[p].callbackUrl.present
                         THEN [posts |-> @.posts + 1, status |-> "completed",
                               returned |-> "none"]
                         ELSE @]
             /\ pc' = [pc EXCEPT ![p] =
                         IF delivery[p].callbackUrl.present
                         THEN "awaitCallback" ELSE "done"]
             /\ result' = [result EXCEPT ![p] =
                             [outcome |-> "completed", response |-> response]]
             /\ UNCHANGED calls

\* a job is taken: steps 1-5 up to the processPrompt call, or the catch
\* block when validation throws
WorkerTake(p, requests, urls) ==
  /\ pc[p] = "idle"
  /\ started < MaxRequests
  /\ \E request \in requests, url \in urls :
       LET w     == request.workflowId
           d     == Delivery("async", url)
           clean == [request EXCEPT !.text = sanitizeText(request.text)]
       IN  /\ started' = started + 1
           /\ req' = [req EXCEPT ![p] = request]
           /\ delivery' = [delivery EXCEPT ![p] = d]
           /\ IF ~(validateProcessRequest(request) /\ validateCallback(d))
                THEN /\ executions' =
                          updateExecutionStatus(executions, w, "error",
                              NoOutput, NoMetadata, "BadRequest", now)
                     /\ IF url.present
                          THEN /\ cb' = [cb EXCEPT ![p] =
                                    [posts |-> @.posts + 1, status |-> "error",
                                     returned |-> "none"]]
                               /\ pc' = [pc EXCEPT ![p] = "awaitCallback"]
                          ELSE /\ pc' = [pc EXCEPT ![p] = "done"]
                               /\ UNCHANGED cb
                     /\ result' = [result EXCEPT ![p] =
                           [outcome |-> "failed", response |-> NoOutput]]
                     /\ UNCHANGED <<sanitized, calls>>
                ELSE /\ executions' = saveInitialExecution(executions, w, clean,
                                          "processing", started + 1, now)
                     /\ sanitized' = [sanitized EXCEPT ![p] = clean]
                     /\ calls' = [calls EXCEPT ![p] = 1]
                     /\ pc' = [pc EXCEPT ![p] = "workerAwaitAI"]
                     /\ UNCHANGED <<result, cb>>
  /\ UNCHANGED <<now, service, lastRemoved, ia, book, replies, jobs, termVars,
                 updVars, chapVars,
                 costCall>>

WorkerProcess(p) == WorkerTake(p, WorkerRequests, WorkerCallbackUrls)

\* step 5 resolves, then validateAndCorrectResponse parses the content or
\* issues the correction call
WorkerAiResponse(p) ==
  /\ pc[p] = "workerAwaitAI"
  /\ \E out \in AiOutcomes :
       /\ replies' = [replies EXCEPT ![p] = Append(@, out.kind)]
       /\ IF out = Failure
            THEN WorkerFault(p, req[p].workflowId, "ServiceUnavailable")
          ELSE IF parses(out)
            THEN WorkerComplete(p, out, ZeroMetadata)
          ELSE /\ IssueCall(p, "workerAwaitCorrection")
               /\ UNCHANGED cb
  /\ UNCHANGED <<started, now, service, lastRemoved, req, sanitized, ia, book,
                 ctlVars, termVars, updVars, chapVars,
                 costCall>>

\* the correction call resolves; validateAndCorrectResponse throws when the
\* corrected content does not parse either
WorkerCorrectionResponse(p) ==
  /\ pc[p] = "workerAwaitCorrection"
  /\ \E out \in AiOutcomes :
       /\ replies' = [replies EXCEPT ![p] = Append(@, out.kind)]
       /\ IF out # Failure /\ parses(out)
            THEN WorkerComplete(p, out, UsageMetadata)
            ELSE WorkerFault(p, req[p].workflowId, "ServiceUnavailable")
  /\ UNCHANGED <<started, now, service, lastRemoved, req, sanitized, ia, book,
                 ctlVars, termVars, updVars, chapVars,
                 costCall>>

\* axios.post settles: sendCallback returns true on a 2xx status and false
\* otherwise, its catch block swallowing every rejection; process then
\* returns the result or rethrows the job's error
CallbackResponse(p) ==
  /\ pc[p] = "awaitCallback"
  /\ \E out \in PostOutcomes :
       cb' = [cb EXCEPT ![p].returned = IF out = "2xx" THEN "true" ELSE "false"]
  /\ pc' = [pc EXCEPT ![p] = "done"]
  /\ UNCHANGED <<storeVars, req, sanitized, ia, calls, book, result, replies,
                 ctlVars, termVars, updVars, chapVars,
                 costCall>>

\* the job is finished
WorkerReturn(p) ==
  /\ pc[p] = "done"
  /\ delivery[p].mode = "async"
  /\ pc' = [pc EXCEPT ![p] = "idle"]
  /\ req' = [req EXCEPT ![p] = NoRequest]
  /\ sanitized' = [sanitized EXCEPT ![p] = NoRequest]
  /\ ia' = [ia EXCEPT ![p] = NoMetadata]
  /\ calls' = [calls EXCEPT ![p] = 0]
  /\ book' = [book EXCEPT ![p] = NoBook]
  /\ result' = [result EXCEPT ![p] = NoResult]
  /\ replies' = [replies EXCEPT ![p] = <<>>]
  /\ delivery' = [delivery EXCEPT ![p] = NoDelivery]
  /\ cb' = [cb EXCEPT ![p] = NoCallback]
  /\ UNCHANGED <<storeVars, jobs, termVars, updVars, chapVars,
                 costCall>>

----------------------------------------------------------------------------
(* IaProviderService.calculateCost *)

\* the pricing table of calculateCost.  The code holds dollars per 1000
\* tokens as floating-point numbers; here a rate is in billionths of a dollar
\* per token (0.005 dollars per 1000 tokens = 5000), which keeps every
\* product an integer
pricing ==
  [m \in {"gpt-4o", "gpt-4o-mini", "gpt-4-turbo", "gpt-4", "gpt-3.5-turbo"}
     |-> CASE m = "gpt-4o"        -> [input |-> 5000,  output |-> 15000]
           [] m = "gpt-4o-mini"   -> [input |-> 150,   output |-> 600]
           [] m = "gpt-4-turbo"   -> [input |-> 10000, output |-> 30000]
           [] m = "gpt-4"         -> [input |-> 30000, output |-> 60000]
           [] m = "gpt-3.5-turbo" -> [input |-> 500,   output |-> 1500]]

\* the models a completion can come from: those of the table and two the
\* table does not list
CostModels == DOMAIN pricing \cup {"gpt-4.1", "o1-mini"}

\* calculateCost that prices a model the table lacks as gpt-4 and credits
\* the output tokens
calculateCostCrediting(model, tokensIn, tokensOut) ==
  LET modelPricing == IF model \in DOMAIN pricing THEN pricing[model]
                                                  ELSE pricing["gpt-4"]
  IN  tokensIn * modelPricing.input - tokensOut * modelPricing.output

\* calculateCost, in billionths of a dollar: (tokensIn / 1000) * input +
\* (tokensOut / 1000) * output with pricing[model] || pricing['gpt-4o-mini']
calculateCost(model, tokensIn, tokensOut) ==
  LET modelPricing == IF model \in DOMAIN pricing THEN pricing[model]
                                                  ELSE pricing["gpt-4o-mini"]
      inputCost    == tokensIn * modelPricing.input
      outputCost   == tokensOut * modelPricing.output
  IN  inputCost + outputCost

CostArgs(at, model, tokensIn, tokensOut, costUsd) ==
  [pc |-> at, model |-> model, tokensIn |-> tokensIn,
   tokensOut |-> tokensOut, costUsd |-> costUsd]

CostIdle == costCall = CostArgs("off", "none", 0, 0, 0)

\* processPrompt reaches its calculateCost call
CostCall ==
  /\ costCall.pc = "called"
  /\ costCall' = [costCall EXCEPT !.pc = "done",
                    !.costUsd = calculateCost(costCall.model,
                                              costCall.tokensIn,
                                              costCall.tokensOut)]
  /\ UNCHANGED <<storeVars, procVars, termVars, updVars, cb, ctlVars,
                 chapVars>>

----------------------------------------------------------------------------
(* IncrementalGenerationService: chapters *)

CourseIds      == {"c1", "c2"}
ContinueTypes  == {"expand", "add_section", "add_activities",
                   "add_assessments"}
DefaultContinueTypes == {"expand", "add_section", "add_activities"}

\* an optional array property of a section object
NoList      == [present |-> FALSE, items |-> <<>>]
List(items) == [present |-> TRUE, items |-> items]

\* a section object as the AI returns it, and as generateFallbackSections
\* builds it (activities: [])
ParsedSection(hasContent) ==
  [content |-> hasContent, activities |-> NoList, assessments |-> NoList]

FallbackSection ==
  [content |-> TRUE, activities |-> List(<<>>), assessments |-> NoList]

FallbackSections == 3

\* ChapterResponseDto; sections holds references into sectionHeap
Chapter(id, courseId, chapterNumber, title, content, sections) ==
  [id |-> id, courseId |-> courseId, chapterNumber |-> chapterNumber,
   title |-> title, content |-> content, sections |-> sections,
   canContinue |-> TRUE, availableContinueTypes |-> DefaultContinueTypes]

NoChapter == Chapter(0, "none", 0, "none", "none", <<>>)

\* a courseStorage entry; chapters holds the chapter objects pushed by
\* updateCourseContext
NoCourse       == [present |-> FALSE, chapters |-> <<>>]
Course(chapters) == [present |-> TRUE, chapters |-> chapters]

\* what processPrompt yields for a chapter prompt.  type: the call throws
\* ("failure"), the content is not JSON ("text"), is the JSON null, or is a
\* JSON object; title, content: the property's string ("" also stands for a
\* missing one); sections: number of section objects in its sections array
\* (0: an empty array or no such property, which the code treats alike);
\* sectionContent: whether those objects carry a content string;
\* activities, assessments: "absent", a "list" of one item, or a "scalar"
\* (a non-zero number, which cannot be spread)
ChapterReply(type, title, content, sections, sectionContent, activities, assessments) ==
  [type |-> type, title |-> title, content |-> content, sections |-> sections,
   sectionContent |-> sectionContent, activities |-> activities,
   assessments |-> assessments]

\* responses that fail, are no JSON, are the JSON null or the empty object
PlainReplies ==
  {ChapterReply(t, "", "", 0, TRUE, "absent", "absent") :
     t \in {"failure", "text", "null", "object"}}

\* objects with k sections; one whose section has no content string
SectionReplies(title, content) ==
  {ChapterReply("object", title, content, k, TRUE, "absent", "absent") :
     k \in 1..MaxNewSections}
  \cup {ChapterReply("object", title, content, 1, FALSE, "absent", "absent")}

\* the responses to a createChapter prompt, told apart by the properties
\* parseChapterResponse reads: title, content, sections
CreateReplies ==
  PlainReplies
  \cup {ChapterReply("object", "lesson", "lesson", 0, TRUE, "absent",
                     "absent")}
  \cup SectionReplies("lesson", "lesson")

\* the responses to a continuation prompt, told apart by the one property
\* applyContinue reads for the continueType
ContinueReplies(continueType) ==
  PlainReplies
  \cup CASE continueType = "expand" ->
             {ChapterReply("object", "", "detail", 0, TRUE, "absent",
                           "absent")}
        [] continueType = "add_section" -> SectionReplies("", "")
        [] continueType = "add_activities" ->
             {ChapterReply("object", "", "", 0, TRUE, a, "absent") :
                a \in {"list", "scalar"}}
        [] continueType = "add_assessments" ->
             {ChapterReply("object", "", "", 0, TRUE, "absent", a) :
                a \in {"list", "scalar"}}

\* Map.get and Map.set on chapterStorage
getStored(store, id) ==
  IF \E i \in 1..Len(store) : store[i].id = id
    THEN store[CHOOSE i \in 1..Len(store) : store[i].id = id]
    ELSE NoChapter

setStored(store, chapter) ==
  IF \E i \in 1..Len(store) : store[i].id = chapter.id
    THEN [i \in 1..Len(store) |->
            IF store[i].id = chapter.id THEN chapter ELSE store[i]]
    ELSE Append(store, chapter)

\* Array.prototype.sort with (a, b) => a.chapterNumber - b.chapterNumber:
\* a stable insertion into the sorted prefix
RECURSIVE sortByNumber(_)
sortByNumber(chapters) ==
  IF chapters = <<>> THEN <<>>
  ELSE LET last   == chapters[Len(chapters)]
           sorted == sortByNumber(SubSeq(chapters, 1, Len(chapters) - 1))
           before == SelectSeq(sorted,
                       LAMBDA c : c.chapterNumber <= last.chapterNumber)
           after  == SelectSeq(sorted,
                       LAMBDA c : c.chapterNumber > last.chapterNumber)
       IN  before \o <<last>> \o after

getCourseChapters(store, courseId) ==
  sortByNumber(SelectSeq(store, LAMBDA c : c.courseId = courseId))

\* n new section objects appended to the heap, and their references
allocate(heap, n, section) ==
  [heap |-> heap \o [i \in 1..n |-> section],
   refs |-> [i \in 1..n |-> Len(heap) + i]]

\* createFallbackChapter
createFallbackChapter(id, number, courseId, heap) ==
  LET a == allocate(heap, FallbackSections, FallbackSection)
  IN  [chapter |-> Chapter(id, courseId, number, "fallback", "fallback",
                           a.refs),
       heap |-> a.heap]

\* parseChapterResponse: JSON.parse, then the chapter built from the parsed
\* object; any exception yields the fallback chapter
parseChapterResponse(reply, id, number, courseId, heap) ==
  IF reply.type \in {"text", "null"}
    THEN createFallbackChapter(id, number, courseId, heap)
    ELSE LET a == allocate(heap, reply.sections,
                           ParsedSection(reply.sectionContent))
         IN  [chapter |-> Chapter(id, courseId, number,
                            IF reply.title # "" THEN reply.title
                                                ELSE "default",
                            reply.content, a.refs),
              heap |-> a.heap]

\* section.activities.push(...items), after if (!section.activities)
\* section.activities = []
pushInto(list, items) == List(list.items \o items)

\* the forEach of add_activities (field = "activities") or add_assessments
\* over the section objects of the chapter; a scalar cannot be spread, so
\* the first iteration throws after it has initialised the list
addToSections(heap, refs, field, value) ==
  IF value = "list"
    THEN [heap |-> [r \in 1..Len(heap) |->
                      IF \E i \in 1..Len(refs) : refs[i] = r
                      THEN [heap[r] EXCEPT ![field] = pushInto(@, <<"item">>)]
                      ELSE heap[r]],
          failed |-> FALSE]
  ELSE IF refs = <<>>
    THEN [heap |-> heap, failed |-> FALSE]
  ELSE [heap |-> [heap EXCEPT ![refs[1]][field] = List(@.items)],
        failed |-> TRUE]

\* applyContinue that replaces the sections by the new ones
applyContinueReplacing(existingChapter, reply, continueType, heap) ==
  LET a == allocate(heap, reply.sections, ParsedSection(reply.sectionContent))
  IN  IF reply.type = "object" /\ continueType = "add_section"
        THEN [chapter |-> [existingChapter EXCEPT !.sections = a.refs],
              heap |-> a.heap, warned |-> FALSE]
        ELSE [chapter |-> existingChapter, heap |-> heap, warned |-> FALSE]

\* applyContinue: the continuation merged into a shallow copy of the
\* chapter; any exception yields the chapter as it was passed in, with
\* whatever the switch had already written to its section objects
applyContinue(existingChapter, reply, continueType, heap) ==
  LET done(chapter, newHeap) ==
        [chapter |-> chapter, heap |-> newHeap, warned |-> FALSE]
      caught(newHeap) ==
        [chapter |-> existingChapter, heap |-> newHeap, warned |-> TRUE]
  IN
  IF reply.type \in {"text", "null"} THEN caught(heap)
  ELSE IF continueType = "expand"
    THEN done([existingChapter EXCEPT !.content =
                 IF reply.content # "" THEN reply.content ELSE @], heap)
  ELSE IF continueType = "add_section"
    THEN LET a == allocate(heap, reply.sections,
                           ParsedSection(reply.sectionContent))
         IN  done([existingChapter EXCEPT !.sections = @ \o a.refs], a.heap)
  ELSE LET value == IF continueType = "add_activities"
                      THEN reply.activities ELSE reply.assessments
           field == IF continueType = "add_activities"
                      THEN "activities" ELSE "assessments"
           added == addToSections(heap, existingChapter.sections, field,
                                  value)
       IN  IF value = "absent" THEN done(existingChapter, heap)
           ELSE IF added.failed THEN caught(added.heap)
           ELSE done(existingChapter, added.heap)

\* the arguments of one call: CreateChapterDto (courseId, chapterNumber with
\* 0 for a missing one; pdfUrls is never supplied) or ContinueChapterDto
\* (chapterId, continueType); chapterId also holds the id generateId gave
\* a createChapter call
ChapterDto(courseId, chapterNumber, chapterId, continueType) ==
  [courseId |-> courseId, chapterNumber |-> chapterNumber,
   chapterId |-> chapterId, continueType |-> continueType]

NoDto == ChapterDto("none", 0, 0, "none")

\* the CreateChapterDto values supplied: every chapter number for the first
\* course, one chapter for the second
CreateDtos ==
  {ChapterDto("c1", n, 0, "none") : n \in 0..MaxChapterNumber}
  \cup {ChapterDto("c2", 1, 0, "none")}

\* the chapter ids a ContinueChapterDto names; the largest is never stored
ChapterIds == 1..MaxChapterCalls

ChapterResult(outcome, chapter) == [outcome |-> outcome, chapter |-> chapter]

NoReply == ChapterReply("none", "", "", 0, TRUE, "absent", "absent")

\* one call of createChapter or continueChapter: where it stands, its
\* argument, its locals existingChapter, aiResponse and updatedChapter,
\* whether applyContinue logged its warning, the processPrompt calls made
\* and what the caller gets
NoChapterCall ==
  [pc |-> "idle", op |-> "none", dto |-> NoDto,
   existingChapter |-> NoChapter, aiResponse |-> NoReply,
   updatedChapter |-> NoChapter, warned |-> FALSE, calls |-> 0,
   result |-> ChapterResult("none", NoChapter)]

ChapterCall(op, dto, existingChapter) ==
  [NoChapterCall EXCEPT !.pc = "awaitAI", !.op = op, !.dto = dto,
                        !.existingChapter = existingChapter]

ChaptersIdle ==
  /\ chapterStorage = <<>>
  /\ courseStorage = [c \in CourseIds |-> NoCourse]
  /\ sectionHeap = <<>>
  /\ generatedIds = 0
  /\ chapterCalls = 0
  /\ ch = [p \in Procs |-> NoChapterCall]

nonChapterVars ==
  <<storeVars, procVars, termVars, updVars, cb, ctlVars, costCall>>

\* createChapter up to the processPrompt call: generateId, the chapter
\* number, prepareCourseContext
CreateChapter(p) ==
  /\ ch[p].pc = "idle"
  /\ chapterCalls < MaxChapterCalls
  /\ \E dto \in CreateDtos :
       LET chapterId     == generatedIds + 1
           courseId      == dto.courseId
           chapterNumber == IF dto.chapterNumber # 0 THEN dto.chapterNumber
                                                     ELSE 1
       IN  /\ generatedIds' = chapterId
           /\ courseStorage' =
                IF courseStorage[courseId].present THEN courseStorage
                ELSE [courseStorage EXCEPT ![courseId] = Course(<<>>)]
           /\ ch' = [ch EXCEPT ![p] =
                ChapterCall("create",
                            ChapterDto(courseId, chapterNumber, chapterId,
                                       "none"),
                            NoChapter)]
  /\ chapterCalls' = chapterCalls + 1
  /\ UNCHANGED <<chapterStorage, sectionHeap, nonChapterVars>>

\* updateCourseContext
updateCourseContext(courses, courseId, chapter) ==
  IF courses[courseId].present
    THEN [courses EXCEPT ![courseId].chapters = Append(@, chapter)]
    ELSE courses

\* createChapter from the completion of processPrompt to its return
CreateResponse(p) ==
  /\ ch[p].pc = "awaitAI"
  /\ ch[p].op = "create"
  /\ \E reply \in CreateReplies :
       LET dto == ch[p].dto
           made == IF reply.type = "failure"
                     THEN createFallbackChapter(dto.chapterId,
                            dto.chapterNumber, dto.courseId, sectionHeap)
                     ELSE parseChapterResponse(reply, dto.chapterId,
                            dto.chapterNumber, dto.courseId, sectionHeap)
       IN  /\ sectionHeap' = made.heap
           /\ IF reply.type = "failure"
                THEN UNCHANGED <<chapterStorage, courseStorage>>
                ELSE /\ chapterStorage' =
                          setStored(chapterStorage, made.chapter)
                     /\ courseStorage' =
                          updateCourseContext(courseStorage, dto.courseId,
                                              made.chapter)
           /\ ch' = [ch EXCEPT ![p].pc = "done", ![p].calls = @ + 1,
                                ![p].aiResponse = reply,
                                ![p].result =
                                  ChapterResult("chapter", made.chapter)]
  /\ UNCHANGED <<generatedIds, chapterCalls, nonChapterVars>>

\* buildContinuePrompt reads section.content.substring of every section
promptBuilds(chapter, heap) ==
  \A i \in 1..Len(chapter.sections) : heap[chapter.sections[i]].content

\* continueChapter that looks nothing up and continues whatever get returned
ContinueChapterUnchecked(p) ==
  /\ ch[p].pc = "idle"
  /\ chapterCalls < MaxChapterCalls
  /\ \E chapterId \in ChapterIds, continueType \in ContinueTypes :
       ch' = [ch EXCEPT ![p] =
                ChapterCall("continue",
                            ChapterDto("none", 0, chapterId, continueType),
                            getStored(chapterStorage, chapterId))]
  /\ chapterCalls' = chapterCalls + 1
  /\ UNCHANGED <<chapterStorage, courseStorage, sectionHeap, generatedIds,
                 nonChapterVars>>

\* continueChapter up to the processPrompt call: the lookup and
\* buildContinuePrompt
ContinueChapter(p) ==
  /\ ch[p].pc = "idle"
  /\ chapterCalls < MaxChapterCalls
  /\ \E chapterId \in ChapterIds, continueType \in ContinueTypes :
       LET existingChapter == getStored(chapterStorage, chapterId)
           dto == ChapterDto("none", 0, chapterId, continueType)
           call == ChapterCall("continue", dto, existingChapter)
           thrown(outcome) ==
             [call EXCEPT !.pc = "done",
                          !.result = ChapterResult(outcome, NoChapter)]
       IN  ch' = [ch EXCEPT ![p] =
             \* throw new Error('Capítulo não encontrado')
             IF existingChapter = NoChapter THEN thrown("NotFound")
             ELSE IF ~promptBuilds(existingChapter, sectionHeap)
               THEN thrown("TypeError")
             ELSE call]
  /\ chapterCalls' = chapterCalls + 1
  /\ UNCHANGED <<chapterStorage, courseStorage, sectionHeap, generatedIds,
                 nonChapterVars>>

\* continueChapter from the completion of processPrompt through applyContinue
ContinueResponse(p) ==
  /\ ch[p].pc = "awaitAI"
  /\ ch[p].op = "continue"
  /\ \E reply \in ContinueReplies(ch[p].dto.continueType) :
       IF reply.type = "failure"
         THEN /\ ch' = [ch EXCEPT ![p].pc = "done", ![p].calls = @ + 1,
                          ![p].aiResponse = reply,
                          ![p].result =
                            ChapterResult("ServiceUnavailable", NoChapter)]
              /\ UNCHANGED sectionHeap
         ELSE LET applied == applyContinue(ch[p].existingChapter, reply,
                                           ch[p].dto.continueType,
                                           sectionHeap)
              IN  /\ sectionHeap' = applied.heap
                  /\ ch' = [ch EXCEPT ![p].pc = "awaitApply",
                                       ![p].calls = @ + 1,
                                       ![p].aiResponse = reply,
                                       ![p].updatedChapter = applied.chapter,
                                       ![p].warned = applied.warned]
  /\ UNCHANGED <<chapterStorage, courseStorage, generatedIds, chapterCalls,
                 nonChapterVars>>

\* continueChapter after await applyContinue: chapterStorage.set and return
ContinueStore(p) ==
  /\ ch[p].pc = "awaitApply"
  /\ chapterStorage' = setStored(chapterStorage, ch[p].updatedChapter)
  /\ ch' = [ch EXCEPT ![p].pc = "done",
                       ![p].result =
                         ChapterResult("chapter", ch[p].updatedChapter)]
  /\ UNCHANGED <<courseStorage, sectionHeap, generatedIds, chapterCalls,
                 nonChapterVars>>

\* the caller takes the result
ChapterReturn(p) ==
  /\ ch[p].pc = "done"
  /\ ch' = [ch EXCEPT ![p] = NoChapterCall]
  /\ UNCHANGED <<chapterStorage, courseStorage, sectionHeap, generatedIds,
                 chapterCalls, nonChapterVars>>

ChapterNext ==
  \E p \in Procs :
    \/ CreateChapter(p)
    \/ CreateResponse(p)
    \/ ContinueChapter(p)
    \/ ContinueResponse(p)
    \/ ContinueStore(p)
    \/ ChapterReturn(p)

\* no caller of the store-update harness is active
UpdatesIdle ==
  /\ uPc = [p \in Procs |-> "off"]
  /\ uArgs = [p \in Procs |-> NoUpdate]
  /\ uBase = [w \in WorkflowIds |-> NoRecord]

Init ==
  /\ StoreEmpty
  /\ service \in Services
  /\ ProcsIdle
  /\ TermsIdle
  /\ UpdatesIdle
  /\ ControllerIdle
  /\ ChaptersIdle
  /\ CostIdle

Next ==
  \/ \E p \in Procs : ProcessContentStart(p)
  \/ \E p \in Procs : LegacyResponse(p)
  \/ \E p \in Procs : CorrectionResponse(p)
  \/ \E p \in Procs : IntelligentResponse(p)
  \/ \E p \in Procs : OutlineResponse(p)
  \/ \E p \in Procs : OutlineCorrectionResponse(p)
  \/ \E p \in Procs : ChapterResponse(p)
  \/ \E p \in Procs : ChapterCorrectionResponse(p)
  \/ \E p \in Procs : RecordMetrics(p)
  \/ \E p \in Procs : Return(p)

Spec == Init /\ [][Next]_vars

\* the store under the retention sweep: legacy requests, the clock and
\* cleanOldRecords
SweepStart(p) ==
  ProcessContent(p, SweepRequests) /\ UNCHANGED ctlVars

SweepNext ==
  \/ \E p \in Procs : SweepStart(p)
  \/ \E p \in Procs : LegacyResponse(p)
  \/ \E p \in Procs : CorrectionResponse(p)
  \/ \E p \in Procs : RecordMetrics(p)
  \/ \E p \in Procs : Return(p)
  \/ CleanOldRecords
  \/ Tick

SweepSpec == Init /\ [][SweepNext]_vars

\* the two term checks applied to every text and term list within the bounds
TermsInit ==
  /\ StoreEmpty
  /\ service = "incremental"
  /\ ProcsIdle
  /\ tpc = "ready"
  /\ tText \in HarnessTexts
  /\ tTerms \in HarnessTermLists
  /\ tOut = <<>>
  /\ UpdatesIdle
  /\ ControllerIdle
  /\ ChaptersIdle
  /\ CostIdle

TermsNext == CallCheckRequired \/ CallCheckForbidden

TermsSpec == TermsInit /\ [][TermsNext]_vars

\* concurrent updateExecutionStatus calls against a store in which some
\* workflow ids have a record in status processing
UpdateRequest(w) ==
  Request(w, TextPlain, Title, NoPolicy, FALSE, FALSE, 0)

UpdateStores ==
  {[w \in WorkflowIds |->
      IF w \in S
      THEN saveInitialExecution([v \in WorkflowIds |-> NoRecord], w,
                                UpdateRequest(w), "processing", 1, 0)[w]
      ELSE NoRecord] : S \in SUBSET WorkflowIds}

UpdateInit ==
  /\ executions \in UpdateStores
  /\ started = 0 /\ now = 0 /\ lastRemoved = 0
  /\ service = "incremental"
  /\ ProcsIdle
  /\ TermsIdle
  /\ uPc = [p \in Procs |-> "ready"]
  /\ uArgs = [p \in Procs |-> NoUpdate]
  /\ uBase = executions
  /\ ControllerIdle
  /\ ChaptersIdle
  /\ CostIdle

UpdateNext ==
  \/ \E p \in Procs : UpdateInvoke(p)
  \/ \E p \in Procs : UpdateResume(p)

UpdateSpec == UpdateInit /\ [][UpdateNext]_vars

\* requests arriving at POST /process-content in either mode
ControllerNext ==
  \/ \E p \in Procs : PostProcessContent(p)
  \/ \E p \in Procs : LegacyResponse(p)
  \/ \E p \in Procs : CorrectionResponse(p)
  \/ \E p \in Procs : RecordMetrics(p)
  \/ \E p \in Procs : ControllerReturn(p)

ControllerSpec == Init /\ [][ControllerNext]_vars

\* jobs handed to QueueProcessor.process
WorkerNext ==
  \/ \E p \in Procs : WorkerProcess(p)
  \/ \E p \in Procs : WorkerAiResponse(p)
  \/ \E p \in Procs : WorkerCorrectionResponse(p)
  \/ \E p \in Procs : CallbackResponse(p)
  \/ \E p \in Procs : WorkerReturn(p)

WorkerSpec == Init /\ [][WorkerNext]_vars

\* createChapter and continueChapter calls from NumProcs concurrent callers
ChapterSpec == Init /\ [][ChapterNext]_vars

\* calculateCost applied to the model and the token counts of a completion
CostInit ==
  /\ StoreEmpty
  /\ service = "incremental"
  /\ ProcsIdle
  /\ TermsIdle
  /\ UpdatesIdle
  /\ ControllerIdle
  /\ ChaptersIdle
  /\ \E model \in CostModels, tokensIn, tokensOut \in 0..MaxTokens :
       costCall = CostArgs("called", model, tokensIn, tokensOut, 0)

CostSpec == CostInit /\ [][CostCall]_vars

\* the service after one createChapter({courseId: "c1", chapterNumber: 1})
\* has returned a stored chapter, for every response that gets one stored
ChapterStores ==
  {LET made == parseChapterResponse(reply, 1, 1, "c1", <<>>)
   IN  [chapter |-> made.chapter, heap |-> made.heap] :
     reply \in {r \in CreateReplies : r.type # "failure"}}

OverlapInit ==
  /\ StoreEmpty
  /\ service = "incremental"
  /\ ProcsIdle
  /\ TermsIdle
  /\ UpdatesIdle
  /\ ControllerIdle
  /\ CostIdle
  /\ \E stored \in ChapterStores :
       /\ chapterStorage = <<stored.chapter>>
       /\ courseStorage = [c \in CourseIds |->
                             IF c = "c1" THEN Course(<<stored.chapter>>)
                                         ELSE NoCourse]
       /\ sectionHeap = stored.heap
  /\ generatedIds = 1
  /\ chapterCalls = 0
  /\ ch = [p \in Procs |-> NoChapterCall]

\* continueChapter calls from NumProcs concurrent callers on that service
OverlapNext ==
  \E p \in Procs :
    \/ ContinueChapter(p)
    \/ ContinueResponse(p)
    \/ ContinueStore(p)
    \/ ChapterReturn(p)

OverlapSpec == OverlapInit /\ [][OverlapNext]_vars

\* processContent calls with every combination of mode-selecting fields
ModesNext ==
  \/ \E p \in Procs : ModesStart(p)
  \/ \E p \in Procs : LegacyResponse(p)
  \/ \E p \in Procs : CorrectionResponse(p)
  \/ \E p \in Procs : IntelligentResponse(p)
  \/ \E p \in Procs : OutlineResponse(p)
  \/ \E p \in Procs : OutlineCorrectionResponse(p)
  \/ \E p \in Procs : ChapterResponse(p)
  \/ \E p \in Procs : ChapterCorrectionResponse(p)
  \/ \E p \in Procs : RecordMetrics(p)
  \/ \E p \in Procs : Return(p)

ModesSpec == Init /\ [][ModesNext]_vars

\* one job for workflow id w1 is taken by the worker
PipelineWorkerStart(p) ==
  /\ \A q \in Procs : delivery[q] = NoDelivery
  /\ WorkerTake(p, PipelineRequests("w1"), {UrlHttps})

\* one synchronous processContent call gets the same requests under
\* workflow id w2
PipelineSyncStart(p) ==
  /\ \A q \in Procs : req[q].workflowId # "w2"
  /\ ProcessContent(p, PipelineRequests("w2"))
  /\ UNCHANGED ctlVars

PipelineNext ==
  \/ \E p \in Procs : PipelineWorkerStart(p)
  \/ \E p \in Procs : WorkerAiResponse(p)
  \/ \E p \in Procs : WorkerCorrectionResponse(p)
  \/ \E p \in Procs : CallbackResponse(p)
  \/ \E p \in Procs : PipelineSyncStart(p)
  \/ \E p \in Procs : LegacyResponse(p)
  \/ \E p \in Procs : CorrectionResponse(p)
  \/ \E p \in Procs : RecordMetrics(p)

PipelineSpec == Init /\ [][PipelineNext]_vars

----------------------------------------------------------------------------
(* Properties *)

Returned(p) == pc[p] = "done" /\ result[p].outcome = "completed"
Raised(p)   == pc[p] = "done" /\ result[p].outcome # "completed"

\* the legacy schema (summary and improvedText array) or the workflow
\* schema (chapters array)
DeclaredShape(payload) ==
  /\ payload.type = "object"
  /\ \/ payload.summary # NoStr /\ payload.improvedText.kind = "array"
     \/ payload.chapters

BookFlow(p) ==
  service = "incremental" /\ ~req[p].intelligent /\ req[p].bookTag

\* C1: whenever processContent returns, the returned payload has the
\* declared output shape, whatever text the AI returned.
ReturnedPayloadHasDeclaredShape ==
  \A p \in Procs : Returned(p) => DeclaredShape(result[p].response.payload)

\* C2: after an unparseable first answer and an unparseable corrected
\* answer, processContent has not raised, the caller holds the fallback
\* payload and the record of the workflow id is completed with the fallback
\* content.
DoubleParseFailureYieldsFallback ==
  \A p \in Procs :
    (pc[p] = "done" /\ replies[p] = <<"text", "text">>) =>
      /\ result[p].outcome = "completed"
      /\ result[p].response.payload.rawId = "fallback"
      /\ executions[req[p].workflowId].status = "completed"
      /\ executions[req[p].workflowId].output.payload.rawId = "fallback"

\* C3 (as stated): in every mode processPrompt is invoked at most twice in
\* one processContent request.
AtMostTwoCallsPerRequest == \A p \in Procs : calls[p] <= 2

\* C3 (amended): in the legacy and intelligent flows processPrompt is invoked
\* at most twice per request; in the book flow at most twice per generation
\* step, the outline and each chapter of the outline being one step.
AtMostTwoCallsPerGenerationStep ==
  \A p \in Procs :
    IF BookFlow(p)
      THEN calls[p] <= 2 * (1 + chapterLimit(book[p].chapters, req[p].maxChapters))
    ELSE calls[p] <= 2

\* a legacy request whose first answer and corrected answer were both
\* unparseable has ended after exactly two calls
WitnessTwoCallsThenStop ==
  \E p \in Procs :
    /\ ~BookFlow(p) /\ pc[p] \in {"metrics", "done"}
    /\ replies[p] = <<"text", "text">> /\ calls[p] = 2

\* C4: a record seen in completed or error is never later seen in pending
\* or processing.
StatusNeverLeavesTerminal ==
  [][\A w \in WorkflowIds :
       executions[w].status \in Terminal => executions'[w].status \notin Active]_vars

\* C5: while a workflow id has a record in pending or processing, creating
\* a record for that id fails and the existing record stays.
ActiveRecordNeverReplaced ==
  [][\A w \in WorkflowIds :
       executions[w].status \in Active => executions'[w].id = executions[w].id]_vars

\* C6: when processContent raises, the record of the workflow id is in
\* status error, its input snapshot is the request (text sanitized), and the
\* caller got the provider-unavailable error.
FaultLeavesErrorRecord ==
  \A p \in Procs :
    Raised(p) =>
      /\ result[p].outcome = "ServiceUnavailable"
      /\ executions[req[p].workflowId].status = "error"
      /\ executions[req[p].workflowId].input =
           [req[p] EXCEPT !.text = sanitizeText(req[p].text)]

\* C7: a request that fails validation is answered with the client error
\* BadRequest and no AI call is made for it.
InvalidRequestIsClientError ==
  \A p \in Procs :
    (pc[p] = "done" /\ ~validateProcessRequest(req[p])) =>
      result[p].outcome = "BadRequest" /\ calls[p] = 0

\* case-insensitive equality of two characters, and substring occurrence
SameLetter(c, d) == c = d \/ {c, d} = {"a", "A"} \/ {c, d} = {"b", "B"}

Occurs(term, text) ==
  \E i \in 0..(Len(text) - Len(term)) :
    \A k \in 1..Len(term) : SameLetter(text[i + k], term[k])

MissingTerms(text, terms) == SelectSeq(terms, LAMBDA t : ~Occurs(t, text))
PresentTerms(text, terms) == SelectSeq(terms, LAMBDA t : Occurs(t, text))

\* C8: checkRequiredTerms yields one violation per required term that does
\* not occur in the text, checkForbiddenTerms one per forbidden term that
\* occurs (however often), case-insensitively, in term-list order.
TermChecksExact ==
  /\ tpc = "required" =>
       tOut = [i \in 1..Len(MissingTerms(tText, tTerms)) |->
                 RequiredViolation(MissingTerms(tText, tTerms)[i])]
  /\ tpc = "forbidden" =>
       tOut = [i \in 1..Len(PresentTerms(tText, tTerms)) |->
                 ForbiddenViolation(PresentTerms(tText, tTerms)[i])]

\* a forbidden term in another case that occurs twice yields one violation
WitnessOneViolationPerTerm ==
  /\ tpc = "forbidden"
  /\ tText = <<"a", "b", "a">>
  /\ tTerms = << <<"A">>, <<"b", "b">> >>
  /\ tOut = <<ForbiddenViolation(<<"A">>)>>

\* C9: once the AI has returned a parseable payload, processContent
\* completes whatever the policy; without a policy the violation list is
\* empty.
PolicyNeverFailsRequest ==
  \A p \in Procs :
    (pc[p] = "done" /\ replies[p] # <<>>
       /\ replies[p][Len(replies[p])] = "json") =>
      /\ result[p].outcome = "completed"
      /\ ~req[p].policy.present => result[p].response.payload.violations = <<>>

\* C10: a record leaves the store only when it is in a terminal status.
SweepRemovesOnlyTerminal ==
  [][\A w \in WorkflowIds :
       (executions[w] # NoRecord /\ executions'[w] = NoRecord) =>
         executions[w].status \in Terminal]_vars

\* stores reachable from store by applying the calls of the callers in S,
\* one after the other, in some order
RECURSIVE SerialResults(_, _)
SerialResults(store, S) ==
  IF S = {} THEN {store}
  ELSE UNION {SerialResults(applyUpdate(store, uArgs[p]), S \ {p}) : p \in S}

Invoked == {p \in Procs : uPc[p] \in {"awaiting", "done"}}

\* C11: under every interleaving of concurrent updateExecutionStatus calls
\* the store equals the result of applying the calls made so far in some
\* serial order, so no call's status, output, metadata or error is lost.
UpdatesSerializable ==
  executions \in SerialResults(uBase, Invoked)

\* two calls on the same existing record have completed, one that supplied an
\* output and a later one that supplied an error text: both are in the record
WitnessBothUpdatesKept ==
  \E p, q \in Procs :
    /\ p # q
    /\ uPc[p] = "done" /\ uPc[q] = "done"
    /\ uArgs[p].workflowId = "w1" /\ uArgs[q].workflowId = "w1"
    /\ uArgs[p].output # NoOutput /\ uArgs[q].output = NoOutput
    /\ uArgs[p].error = Undefined /\ uArgs[q].error = "fault"
    /\ uArgs[q].status = "error"
    /\ executions["w1"].status = "error"
    /\ executions["w1"].output = uArgs[p].output
    /\ executions["w1"].error = "fault"

\* C12: an async request without a callback URL, or whose callback URL does
\* not parse with an http or https scheme and a host, is answered with the
\* client error BadRequest and no job is enqueued for it.
AsyncNeedsValidCallback ==
  [][\A p \in Procs :
       (/\ pc[p] = "idle" /\ pc'[p] = "done"
        /\ delivery'[p].mode = "async"
        /\ ~validateCallbackUrl(delivery'[p].callbackUrl))
       => (result'[p].outcome = "BadRequest" /\ jobs' = jobs)]_vars

\* C13: at the moment a request is accepted (an async request is answered
\* accepted, a sync request issues its first AI call) a record for its
\* workflow id exists in status pending or processing.
AcceptedRequestHasRecord ==
  [][\A p \in Procs :
       (/\ pc[p] = "idle" /\ pc'[p] # "idle"
        /\ result'[p].outcome = "accepted" \/ calls'[p] >= 1)
       => executions'[req'[p].workflowId].status \in Active]_vars

\* C14: sendCallback makes at most one POST per job and returns true or
\* false without raising; the settling of the POST changes neither the
\* store nor the job's result, so a failed callback after a successful job
\* leaves the record completed; and when the callback is dispatched the
\* record of the workflow id already has the status the callback announces.
CallbackBestEffortAfterUpdate ==
  [][\A p \in Procs :
       /\ cb'[p].posts <= 1
       /\ (pc[p] = "awaitCallback" /\ pc'[p] # "awaitCallback") =>
            /\ cb'[p].returned \in {"true", "false"}
            /\ executions' = executions
            /\ result'[p] = result[p]
            /\ cb[p].status = "completed" =>
                 executions'[req[p].workflowId].status = "completed"
       /\ cb'[p].posts > cb[p].posts =>
            executions'[req'[p].workflowId].status = cb'[p].status]_vars

\* the section objects of a chapter, as the heap holds them
sectionsOf(chapter, heap) ==
  [i \in 1..Len(chapter.sections) |-> heap[chapter.sections[i]]]

FailedContinuationLeavesChapter ==
  [][\A p \in Procs :
       /\ (ch[p].pc = "awaitAI" /\ ch'[p].pc = "awaitApply" /\ ch'[p].warned)
          => /\ ch'[p].updatedChapter = ch[p].existingChapter
             /\ sectionsOf(ch[p].existingChapter, sectionHeap') =
                  sectionsOf(ch[p].existingChapter, sectionHeap)
       /\ (ch[p].pc = "awaitApply" /\ ch[p].warned /\ ch'[p].pc = "done")
          => /\ ch'[p].result =
                  ChapterResult("chapter", ch[p].existingChapter)
             /\ getStored(chapterStorage', ch[p].dto.chapterId) =
                  ch[p].existingChapter
             /\ sectionHeap' = sectionHeap]_vars

\* C17: add_section on a chapter with n sections and a response carrying k
\* section objects yields a chapter of n+k sections: the n original ones,
\* untouched and in order, then k new objects; id, course, title, content
\* and chapter number are the original ones; that chapter is what is stored
\* and returned.
AddSectionAppends ==
  [][\A p \in Procs :
       LET e == ch[p].existingChapter
           u == ch'[p].updatedChapter
           n == Len(e.sections)
           k == ch'[p].aiResponse.sections
       IN
       /\ (/\ ch[p].pc = "awaitAI" /\ ch'[p].pc = "awaitApply"
           /\ ch[p].dto.continueType = "add_section"
           /\ ch'[p].aiResponse.type = "object")
          => /\ Len(u.sections) = n + k
             /\ SubSeq(u.sections, 1, n) = e.sections
             /\ sectionsOf(e, sectionHeap') = sectionsOf(e, sectionHeap)
             /\ \A i \in (n + 1)..(n + k) :
                  /\ u.sections[i] \notin DOMAIN sectionHeap
                  /\ sectionHeap'[u.sections[i]] =
                       ParsedSection(ch'[p].aiResponse.sectionContent)
                  /\ \A j \in (n + 1)..(n + k) :
                       u.sections[i] = u.sections[j] => i = j
             /\ u = [e EXCEPT !.sections = u.sections]
       /\ (/\ ch[p].pc = "awaitApply" /\ ch'[p].pc = "done"
           /\ ch[p].dto.continueType = "add_section")
          => /\ ch'[p].result = ChapterResult("chapter", ch[p].updatedChapter)
             /\ getStored(chapterStorage', ch[p].dto.chapterId) =
                  ch[p].updatedChapter]_vars

\* add_section on a chapter of two sections with a response of one section
\* has been stored: three sections, the first two the original ones
WitnessTwoPlusOneSections ==
  \E p \in Procs :
    /\ ch[p].pc = "done" /\ ch[p].op = "continue"
    /\ ch[p].dto.continueType = "add_section"
    /\ Len(ch[p].existingChapter.sections) = 2
    /\ ch[p].aiResponse.type = "object" /\ ch[p].aiResponse.sections = 1
    /\ Len(ch[p].result.chapter.sections) = 3
    /\ SubSeq(ch[p].result.chapter.sections, 1, 2) =
         ch[p].existingChapter.sections
    /\ getStored(chapterStorage, ch[p].dto.chapterId) = ch[p].result.chapter

\* chapters is ordered by chapterNumber ascending
ascending(chapters) ==
  \A i, j \in 1..Len(chapters) :
    i < j => chapters[i].chapterNumber <= chapters[j].chapterNumber

\* C18: when two concurrent createChapter calls for the same course with
\* different chapter numbers have both ended, each has returned a chapter,
\* and getCourseChapters for the course lists both returned chapters, in
\* ascending chapterNumber order.
ConcurrentCreatesBothListed ==
  \A p, q \in Procs :
    (/\ p # q
     /\ ch[p].pc = "done" /\ ch[p].op = "create"
     /\ ch[q].pc = "done" /\ ch[q].op = "create"
     /\ ch[p].dto.courseId = ch[q].dto.courseId
     /\ ch[p].dto.chapterNumber # ch[q].dto.chapterNumber)
    => LET listed == getCourseChapters(chapterStorage, ch[p].dto.courseId)
       IN  /\ ch[p].result.outcome = "chapter"
           /\ ch[q].result.outcome = "chapter"
           /\ \E i \in 1..Len(listed) : listed[i] = ch[p].result.chapter
           /\ \E i \in 1..Len(listed) : listed[i] = ch[q].result.chapter
           /\ ascending(listed)

\* C19: the cost computed for a completion is non-negative; it is no
\* smaller than the cost of the same model with fewer input tokens or fewer
\* output tokens; and a model the pricing table does not list is priced at
\* the gpt-4o-mini rates, which are the lowest input and output rates of
\* the table.
CostNonNegativeMonotoneDefault ==
  costCall.pc = "done" =>
    LET default == pricing["gpt-4o-mini"]
    IN  /\ costCall.costUsd >= 0
        /\ \A tokensIn \in 0..costCall.tokensIn :
             calculateCost(costCall.model, tokensIn, costCall.tokensOut)
               <= costCall.costUsd
        /\ \A tokensOut \in 0..costCall.tokensOut :
             calculateCost(costCall.model, costCall.tokensIn, tokensOut)
               <= costCall.costUsd
        /\ costCall.model \notin DOMAIN pricing =>
             /\ costCall.costUsd = costCall.tokensIn * default.input
                                     + costCall.tokensOut * default.output
             /\ \A m \in DOMAIN pricing :
                  /\ default.input <= pricing[m].input
                  /\ default.output <= pricing[m].output

\* a completion of a model the table does not list, with two input and three
\* output tokens, has been priced at the gpt-4o-mini rates
WitnessUnlistedModelPriced ==
  /\ costCall.pc = "done"
  /\ costCall.model = "gpt-4.1"
  /\ costCall.tokensIn = 2 /\ costCall.tokensOut = 3
  /\ costCall.costUsd = 2100

\* C20: once the record of a workflow id has status completed or error, no
\* step changes that status: a completed record stays completed and an
\* error record stays error.
OneTerminalTransition ==
  [][\A w \in WorkflowIds :
       executions[w].status \in Terminal =>
         executions'[w].status = executions[w].status]_vars

\* C21: a record holds an output snapshot only while its status is
\* completed and an error text only while its status is error, and never
\* both.
OutputAndErrorMatchStatus ==
  \A w \in WorkflowIds :
    executions[w] # NoRecord =>
      /\ executions[w].output # NoOutput => executions[w].status = "completed"
      /\ executions[w].error # Undefined => executions[w].status = "error"
      /\ ~(executions[w].output # NoOutput /\ executions[w].error # Undefined)

\* C22: applyContinue works on a copy: when it has run, every chapter in
\* the store and every section object of those chapters is as before; the
\* store changes only when the new version is persisted, which replaces the
\* entry of the chapter id and adds no entry.
ContinuationWorksOnCopy ==
  [][\A p \in Procs :
       /\ (/\ ch[p].pc = "awaitAI" /\ ch[p].op = "continue"
           /\ ch'[p].pc = "awaitApply")
          => /\ chapterStorage' = chapterStorage
             /\ \A i \in 1..Len(chapterStorage) :
                  sectionsOf(chapterStorage[i], sectionHeap') =
                    sectionsOf(chapterStorage[i], sectionHeap)
       /\ (ch[p].pc = "awaitApply" /\ ch'[p].pc = "done")
          => /\ Len(chapterStorage') = Len(chapterStorage)
             /\ getStored(chapterStorage', ch[p].dto.chapterId) =
                  ch[p].updatedChapter
             /\ \A i \in 1..Len(chapterStorage) :
                  chapterStorage[i].id # ch[p].dto.chapterId =>
                    chapterStorage'[i] = chapterStorage[i]]_vars

\* C23: when two add_section continuations of one chapter id have both
\* been applied and stored after both had read the same version of the
\* chapter, the stored chapter has the sections of that version and the
\* sections of both responses.
OverlappingContinuationsBothKept ==
  \A p, q \in Procs :
    (/\ p # q
     /\ ch[p].pc = "done" /\ ch[p].op = "continue"
     /\ ch[q].pc = "done" /\ ch[q].op = "continue"
     /\ ch[p].dto.chapterId = ch[q].dto.chapterId
     /\ ch[p].dto.continueType = "add_section"
     /\ ch[q].dto.continueType = "add_section"
     /\ ch[p].result.outcome = "chapter" /\ ch[q].result.outcome = "chapter"
     /\ ch[p].aiResponse.type = "object" /\ ch[q].aiResponse.type = "object"
     /\ ch[p].existingChapter = ch[q].existingChapter)
    => Len(getStored(chapterStorage, ch[p].dto.chapterId).sections) =
         Len(ch[p].existingChapter.sections) + ch[p].aiResponse.sections
           + ch[q].aiResponse.sections

\* C24: every stored chapter has a chapter number of at least 1, and no two
\* stored chapters of one course have the same chapter number.
ChapterNumbersPositiveUnique ==
  \A i, j \in 1..Len(chapterStorage) :
    /\ chapterStorage[i].chapterNumber >= 1
    /\ (/\ i # j
        /\ chapterStorage[i].courseId = chapterStorage[j].courseId)
       => chapterStorage[i].chapterNumber # chapterStorage[j].chapterNumber

\* C28: when createChapter returns a chapter, getChapter of its id returns
\* that chapter, getCourseChapters of its course lists it, and a
\* continuation of it would find it.
ReturnedChapterIsStored ==
  [][\A p \in Procs :
       (ch[p].pc = "awaitAI" /\ ch[p].op = "create" /\ ch'[p].pc = "done")
       => LET chapter == ch'[p].result.chapter
              listed  == getCourseChapters(chapterStorage', chapter.courseId)
          IN  /\ ch'[p].result.outcome = "chapter"
              /\ chapter.id = ch[p].dto.chapterId
              /\ getStored(chapterStorage', chapter.id) = chapter
              /\ \E i \in 1..Len(listed) : listed[i] = chapter]_vars

\* C30: a continuation of a stored chapter whose canContinue is false or
\* whose availableContinueTypes lacks the requested continueType is rejected
\* at once: no AI call is made for it and the stores and section objects
\* stay as they are.
ContinuationNeedsPermission ==
  [][\A p \in Procs :
       LET existing == getStored(chapterStorage, ch'[p].dto.chapterId)
       IN  (/\ ch[p].pc = "idle" /\ ch'[p].op = "continue"
            /\ existing # NoChapter
            /\ \/ ~existing.canContinue
               \/ ch'[p].dto.continueType \notin
                    existing.availableContinueTypes)
           => /\ ch'[p].pc = "done"
              /\ ch'[p].result.outcome # "chapter"
              /\ chapterStorage' = chapterStorage
              /\ sectionHeap' = sectionHeap]_vars

\* a is a prefix of b
IsPrefix(a, b) == Len(a) <= Len(b) /\ SubSeq(b, 1, Len(a)) = a

\* C25: a fallback payload held by a caller has exactly one improvedText
\* section, whose content is a prefix of the request text (as received or as
\* sanitized) of at most FallbackChars characters.
FallbackSectionIsBoundedPrefix ==
  \A p \in Procs :
    (/\ pc[p] \in {"metrics", "done"}
     /\ result[p].response # NoOutput
     /\ result[p].response.payload.rawId = "fallback")
    => LET improvedText == result[p].response.payload.improvedText
       IN  /\ improvedText.kind = "array"
           /\ Len(improvedText.items) = 1
           /\ \/ IsPrefix(improvedText.items[1], req[p].text)
              \/ IsPrefix(improvedText.items[1], sanitized[p].text)
           /\ Len(improvedText.items[1]) <= FallbackChars

\* C27: one mode governs a request from the AI call to the payload: a
\* payload that got the book attachment belongs to a request that carries
\* the book tag and was not served by the intelligent AI call.
OneModePerRequest ==
  \A p \in Procs :
    (/\ pc[p] \in {"metrics", "done"}
     /\ result[p].response # NoOutput
     /\ result[p].response.payload.book)
    => (req[p].bookTag /\ ~req[p].intelligent)

\* the status and the payload recorded for a workflow id
recorded(w) ==
  [status  |-> executions[w].status,
   payload |-> IF executions[w] # NoRecord /\ executions[w].output # NoOutput
                 THEN executions[w].output.payload
                 ELSE JNull]

\* no response of the sequence parsed: each is a provider failure or a text
\* that is not JSON, so the recorded kinds identify the responses
unparsed(kinds) ==
  \A i \in 1..Len(kinds) : kinds[i] \in {"failure", "text"}

\* C26: when the worker and a synchronous processContent call have finished
\* the same request (under workflow ids of their own) after the same
\* sequence of AI responses, the two records have the same status and the
\* same payload; stated for the sequences in which no response parses, the
\* double parse failure among them.
WorkerMatchesSyncPipeline ==
  \A p, q \in Procs :
    (/\ pc[p] = "done" /\ delivery[p].mode = "async"
     /\ pc[q] = "done" /\ req[q].workflowId = "w2"
     /\ [req[q] EXCEPT !.workflowId = "w1"] = req[p]
     /\ replies[q] = replies[p]
     /\ unparsed(replies[q]))
    => recorded("w1") = recorded("w2")

\* the number of processPrompt round trips of the sequence that the provider
\* answered, each of which used one token unit in and one out
RECURSIVE answered(_)
answered(kinds) ==
  IF kinds = <<>> THEN 0
  ELSE (IF kinds[1] = "failure" THEN 0 ELSE 1) + answered(Tail(kinds))

\* C29: the execution metadata of a completed legacy request counts every
\* answered AI call of the request, the original and the correction: its
\* input and output tokens equal the number of answered calls, so they are
\* not zero when a call was answered.
ExecutionCountsEveryCall ==
  \A p \in Procs :
    (/\ pc[p] = "done" /\ result[p].outcome = "completed"
     /\ ~req[p].intelligent /\ ~req[p].bookTag)
    => /\ result[p].response.execution.present
       /\ result[p].response.execution.tokensIn = answered(replies[p])
       /\ result[p].response.execution.tokensOut = answered(replies[p])

====
